---------------------------- MODULE Spec2Model ----------------------------
(***************************************************************************)
(* AsradaAI interaction core: the Event Orchestrator                       *)
(* (asrada_controller.py), the query pipeline's cancellation points        *)
(* (car_ai/car_ai_system.py, car_ai/response_generators.py), the Audio     *)
(* Playback Engine (my_tts.py) and the Device Link (asrada_head.py).       *)
(*                                                                         *)
(* Every thread of the program is a process with a program counter; one    *)
(* action is one step of a handler between two accesses to shared state.   *)
(* Time is abstracted to a clock `now` counted in ticks; sleeps and        *)
(* blocking calls take any number of ticks.                                *)
(***************************************************************************)
EXTENDS Integers, Sequences, FiniteSets, TLC

(* ------------------------------ bounds -------------------------------- *)
\* Handler invocations (on_button_press_event, cancel_current_event) in one
\* behaviour; each runs on a thread of its own, numbered in order of start.
MaxCalls == 3
\* The specifications in which any call may be a trigger or a cancellation
\* make the first MaxRacing of these calls.
MaxRacing == 2
\* Clock ticks per second and the last clock value.
TicksPerSecond == 1
MaxTime == 2
\* 20 ms chunks of one utterance.
NumChunks == 1
\* Chunks the LLM stream yields for one question.
StreamChunks == 1

(* -------------------------- program constants ------------------------- *)
\* asrada_controller.py:190  `if time_since_last_event < 1.0`
DebounceSeconds == 1
\* asrada_controller.py:302 / 316: wait slices of the actuator thread
Slices1 == 10
Slices2 == 4

Callers == 1..MaxCalls
Racers == 1..MaxRacing
\* alert_monitor_thread (main.py:144-165) speaks its alerts one after the
\* other: `for alert in alerts: g_esp.speak(alert)`
MaxAlerts == 3
Alerts == 1..MaxAlerts
AlertThread == 0
Threads == Callers \cup {AlertThread}
DebounceTicks == DebounceSeconds * TicksPerSecond
\* The clock when the program starts: a full window after time 0.
StartTime == DebounceTicks

VARIABLES
  (* clock *)
  now,
  (* AsradaHeadOrchestrator fields *)
  last_event_start_time, event_in_progress, cancel_requested, servo2_pos,
  (* module-level flags: response_generators.STOP_LLM_FLAG and the
     force_stop_flag that asrada_controller.py:10 imports from my_tts *)
  STOP_LLM_FLAG, force_stop_flag,
  (* per call: position, locals (a record), and history *)
  pc, loc, trace, cancel_hit, calls,
  (* actuator thread of the session run by a slot: position, slices waited,
     motion commands issued, and what the thread has found at its checks;
     the holder of AsradaHeadOrchestrator._lock *)
  servo_pc, servo_i, servo_cmds, servo_note, servo_lock,
  (* my_tts.py globals and the playback worker *)
  audio_queue, stop_speech_flag, current_audio_process, audio_lock,
  w_pc, w_item, w_chunk, is_running,
  (* the output stream of the playback in progress; the indicator level
     last sent with head.send_led_level by my_tts *)
  stream, led_level,
  (* history of the utterances of the alert thread, and of their playbacks *)
  utt, played,
  (* asrada_head.py: the AsradaHead singleton, and the threads that call it *)
  head, lk, lcalls

orchVars == <<last_event_start_time, event_in_progress, cancel_requested,
              servo2_pos, STOP_LLM_FLAG, force_stop_flag>>
callVars == <<pc, loc, trace, cancel_hit, calls>>
servoVars == <<servo_pc, servo_i, servo_cmds, servo_note, servo_lock>>
\* What the steps of speak() and of the orchestrator leave alone
engVars == <<stream, led_level, utt, played>>
ttsVars == <<audio_queue, stop_speech_flag, current_audio_process, audio_lock,
             w_pc, w_item, w_chunk, is_running, engVars>>
linkVars == <<head, lk, lcalls>>
vars == <<now, orchVars, callVars, servoVars, ttsVars, linkVars>>

(* ------------------------------ helpers ------------------------------- *)
Range(s) == {s[i] : i \in 1..Len(s)}

\* Positions of a call that is inside the try block of on_button_press_event
\* (lines 230-376) or its cleanup: after `_event_in_progress = True`.
SessionPcs ==
  {"s_led4on", "s_beep", "s_beep_w", "s_beep_r", "s_listen", "s_fb_off",
   "servo_start",
   "pq1", "pq4", "gen_clear", "gen_84", "gen_89", "gen_103", "gen_108",
   "gen_119", "gen_exc", "ai_post", "ai_exc", "s_speak", "s_join", "finally"}

\* Positions inside cancel_current_event after its early return (406-431).
CancelPcs == {"c_set", "c_llm", "scs_a", "scs_set", "scs_b", "c_scs2", "c_leds",
              "c_clear", "c_done"}

\* my_tts.is_tts_active is imported by asrada_controller.py:10, but my_tts.py
\* does not define it.  The spec calls it the engine's status query ("speech
\* output is currently playing"); the orchestrator's own fallback for it
\* (lines 206, 397) is `current_audio_process is not None`.
is_tts_active == current_audio_process # "None"

\* While in speak() a caller is where it returns to.
Where(t) == IF pc[t] \in {"sp1", "sp2"} THEN loc[t].ret ELSE pc[t]
IsTrigger(t) == loc[t].kind \in {"full", "skip_stt"}
InSession(t) == IsTrigger(t) /\ Where(t) \in SessionPcs

NoLoc == [ret |-> "idle", kind |-> "none", current_time |-> 0,
          tts_playing |-> FALSE, answer |-> "", qtype |-> "none", gen_k |-> 0,
          chunk |-> "none", residual |-> FALSE, spk |-> "none",
          outcome |-> "none", busy |-> FALSE, cres |-> "none",
          at_cancel |-> {}, capturing |-> {}, moving |-> {},
          beep |-> "None"]

Log(t, e) == trace' = [trace EXCEPT ![t] = Append(@, e)]
Goto(t, p) == pc' = [pc EXCEPT ![t] = p]
\* The handler returns.  The call's history is read at "returned"; Retire
\* then forgets it, before anything else happens.
Return(t) == pc' = [pc EXCEPT ![t] = "returned"]
Quiet == \A t \in Callers : pc[t] # "returned"
\* Thread t has not been started yet and is the next to start.
Fresh(t) == pc[t] = "idle" /\ t = calls + 1
\* Thread t is running a handler.
Running(t) == pc[t] \notin {"idle", "returned", "gone"}

(* ----------------- Device Link: inputs and encodings ------------------- *)
\* Threads that call the link, and the calls made in one behaviour.
NumClients == 2
MaxCmds == 3
Clients == 1..NumClients

\* asrada_head.py:83  connect(self, retry_count=3)
retry_count == 3
\* asrada_head.py:212 / 220  `if len(...) > 31`
CredentialLimit == 31
\* asrada_head.py:186  `if level < 0 or level > 3`
MaxLevel == 3
\* asrada_head.py:206  `angle = max(0, min(angle, 180))`
MaxAngle == 180

\* A string is a sequence of characters; "a" encodes to one byte of UTF-8
\* and the Hangul syllable "ga" to three.
Chars == {"a", "ga"}
Utf8Char(ch) == IF ch = "a" THEN <<97>> ELSE <<234, 176, 128>>
RECURSIVE Utf8(_)
Utf8(str) == IF str = <<>> THEN <<>>
             ELSE Utf8Char(Head(str)) \o Utf8(Tail(str))
Repeat(ch, n) == [i \in 1..n |-> ch]
Strings == {Repeat(ch, n) : ch \in Chars,
                            n \in {CredentialLimit, CredentialLimit + 1}}

\* The calls a client makes: the convenience commands (184-233) with their
\* arguments, and connect() / close().
Commands ==
       {[name |-> "led_set", a |-> i, b |-> on, str |-> <<>>] :
           i \in {4}, on \in {0, 1}}
  \cup {[name |-> "send_led_level", a |-> l, b |-> 0, str |-> <<>>] :
           l \in {-1, MaxLevel, MaxLevel + 1}}
  \cup {[name |-> "servo_set", a |-> 2, b |-> ang, str |-> <<>>] :
           ang \in {-5, 90, MaxAngle + 20}}
  \cup {[name |-> n, a |-> 0, b |-> 0, str |-> st] :
           n \in {"set_ssid", "set_password"}, st \in Strings}
  \cup {[name |-> n, a |-> 0, b |-> 0, str |-> <<>>] :
           n \in {"reboot_esp", "connect", "close"}}

\* servo_set over the whole range of its arguments: indices of one byte and
\* angles below, inside and above 0..180
ServoIndexes == {0, 1, 2, 127, 255}
ServoAngles == {-300, -1, 0, 1, 90, 179, 180, 181, 200, 255, 256, 1000}
ServoCommands ==
  {[name |-> "servo_set", a |-> i, b |-> ang, str |-> <<>>] :
     i \in ServoIndexes, ang \in ServoAngles}

Convenience == {"led_set", "send_led_level", "servo_set", "set_ssid",
                "set_password", "reboot_esp"}

\* 186, 212, 220: the commands that return False before send_packet
Rejected(cmd) ==
  \/ cmd.name = "send_led_level" /\ (cmd.a < 0 \/ cmd.a > MaxLevel)
  \/ cmd.name \in {"set_ssid", "set_password"} /\ Len(cmd.str) > CredentialLimit

Clamp_m(angle) == IF angle < 0 THEN 0 ELSE angle
\* 206: angle = max(0, min(angle, 180))
Clamp(angle) == IF angle < 0 THEN 0 ELSE IF angle > MaxAngle THEN MaxAngle
                ELSE angle

\* The cmd byte and the data bytes handed to send_packet
CmdByte(cmd) == IF cmd.name \in {"led_set", "send_led_level"} THEN 1
                ELSE IF cmd.name = "servo_set" THEN 2 ELSE 3
DataBytes(cmd) ==
  CASE cmd.name = "led_set"        -> <<cmd.a, cmd.b>>
    [] cmd.name = "send_led_level" -> <<6, cmd.a>>
    [] cmd.name = "servo_set"      -> <<cmd.a, Clamp(cmd.b)>>
    [] cmd.name = "set_ssid"       -> <<1>> \o Utf8(cmd.str)
    [] cmd.name = "set_password"   -> <<2>> \o Utf8(cmd.str)
    [] OTHER                       -> <<3>>
\* 163: packet = b'\xAA' + bytes([cmd]) + data + b'\xBB'
Packet(cmd) == <<170, CmdByte(cmd)>> \o DataBytes(cmd) \o <<187>>

\* The locals and the history of one call on the link
NoCmd == [pc |-> "idle", cmd |-> "none", a |-> 0, b |-> 0,
          rejected |-> "no", down |-> FALSE,
          connects |-> 0, attempt |-> 0, con |-> "none", packet |-> <<>>,
          wrote |-> <<>>, result |-> "none",
          \* history of the call: discovery queries issued, whether one found
          \* the device, whether a socket was created, where the transport
          \* was opened to, whether a receive loop was started, whether the
          \* write of the frame failed
          queries |-> 0, found |-> FALSE, opened |-> FALSE, dest |-> "none",
          started |-> FALSE, wfail |-> FALSE]

\* The history of an utterance of the alert thread:
\*   hit   0, or the cancel thread whose stop_current_speech found the
\*         utterance queued or its speak() call in progress, or -1 once
\*         that stop_current_speech has returned
\*   cut   0, or the cancel thread whose stop_current_speech interrupted
\*         the playback of the utterance in its chunk loop, or -1 once that
\*         cancel_current_event has returned
\*   stops a stop (stop_current_speech or stop_tts) has set the stop flag
\*         since the speak() call of the utterance began
\* It is forgotten when the worker has finished with the utterance.
NoUtt == [hit |-> 0, cut |-> 0, stops |-> FALSE]

\* The playbacks of the alerts are recorded in `played` as long as no stop
\* and no playback error has occurred since the first alert; from then on
\* the record is Void.  An entry is the alert and how many of its chunks
\* were written.
Void == << <<0, 0>> >>
Disturbed == IF loc[AlertThread].gen_k > 0 THEN Void ELSE played

\* The queue item of alert k, and where the utterance is
Item(k) == <<AlertThread, "alert", k>>
Speaking(k) == pc[AlertThread] \in {"sp1", "sp2"} /\ loc[AlertThread].gen_k = k
Queued(k) == Item(k) \in Range(audio_queue)
Playing(k) == w_item = Item(k) /\ w_pc \in {"w_open", "w_play", "w_fin"}
\* The cancel threads inside a stop_current_speech that has set the flag
\* The worker is in the chunk loop of alert k (207-225)
InLoop(k) == w_item = Item(k) /\ w_pc = "w_play"
InStop == {t \in Callers : pc[t] = "scs_b"}
\* Utterance k is somewhere between the start of its speak() call and the
\* end of the worker's handling of it
Live(k) == Speaking(k) \/ Queued(k) \/ w_item = Item(k)
\* The stop flag is set: the history of the utterances
Stamp(u) == [k \in Alerts |-> [u[k] EXCEPT !.stops = @ \/ Live(k)]]

\* The worker's history of a request of the alert thread: r[3] is the alert
IsAlert(r) == r # <<>> /\ r[1] = AlertThread
Record(r, n) == IF IsAlert(r) /\ played # Void
                  THEN Append(played, <<r[3], n>>)
                  ELSE played
\* The worker has finished with request r
Forget(r) == [k \in Alerts |-> IF r = Item(k) THEN NoUtt ELSE utt[k]]

(* ------------------------------- Init --------------------------------- *)
Init ==
  /\ now = StartTime              \* time.time() is far past the initial 0
  /\ last_event_start_time = 0    \* asrada_controller.py:59
  /\ event_in_progress = FALSE    \* :47
  /\ cancel_requested = FALSE     \* :49
  /\ servo2_pos = 2               \* :34
  /\ STOP_LLM_FLAG = FALSE        \* response_generators.py:8
  /\ force_stop_flag = FALSE
  /\ pc = [t \in Threads |-> "idle"]
  /\ loc = [t \in Threads |-> NoLoc]
  /\ trace = [t \in Callers |-> <<>>]
  /\ cancel_hit = [t \in Callers |-> "no"]
  /\ calls = 0
  /\ servo_pc = [t \in Callers |-> "none"]
  /\ servo_i = [t \in Callers |-> 0]
  /\ servo_cmds = [t \in Callers |-> <<>>]
  /\ servo_note = [t \in Callers |-> "ok"]
  /\ servo_lock = 0                \* :44, nobody holds self._lock
  /\ audio_queue = <<>>           \* my_tts.py:41
  /\ stop_speech_flag = FALSE     \* :43
  /\ current_audio_process = "None"   \* :44
  /\ audio_lock = "free"          \* :45
  /\ w_pc = "w_get"
  /\ w_item = <<>>
  /\ w_chunk = 0
  /\ is_running = TRUE            \* :42
  /\ stream = "None"
  /\ led_level = 0
  /\ utt = [k \in Alerts |-> NoUtt]
  /\ played = <<>>
  /\ head = [connected |-> FALSE,   \* asrada_head.py:61
             sock |-> "None",       \* :56
             stop_flag |-> FALSE,   \* :60
             recv |-> 0,            \* receive loops running
             \* receive loops that have left their while loop (137) and
             \* have not yet marked the link disconnected (150)
             leaving |-> 0,
             \* a read of a receive loop has raised
             raised |-> FALSE,
             \* set_config(esp_hostname, esp_port), called by
             \* AsradaHeadOrchestrator.__init__ (asrada_controller.py:27-28,
             \* main.py:45)
             hostname |-> "esp8266-d3c2cf.local",
             \* (self.ip, self.port): None and the configured port, until a
             \* discovery result is stored in them (asrada_head.py:95)
             addr |-> "configured",
             \* the peer has closed the connection of the socket: a read
             \* has returned zero bytes
             eof |-> FALSE]
  /\ lk = [c \in Clients |-> NoCmd]
  /\ lcalls = 0

(* ------------------------------ clock --------------------------------- *)
Tick ==
  /\ Quiet
  /\ now < MaxTime
  /\ now' = now + 1
  /\ UNCHANGED <<orchVars, callVars, servoVars, ttsVars, linkVars>>

(* ------------------- my_tts.speak (lines 298-317) ---------------------- *)
\* A caller enters speak(text) with a non-empty text (301): pc "sp1",
\* loc.spk what is spoken and loc.ret the position to return to.
CallSpeak(t, what, back) ==
  /\ loc' = [loc EXCEPT ![t].spk = what, ![t].ret = back]
  /\ Goto(t, "sp1")

\* 305: `if stop_speech_flag.is_set(): stop_speech_flag.clear()`; then the
\* synthesis (create_robot_tts_file, 307), which takes time.
FlagAtSpeak_m == stop_speech_flag
FlagAtSpeak == FALSE

speak_clear(t) ==
  /\ pc[t] = "sp1" /\ Quiet
  /\ stop_speech_flag' = FlagAtSpeak
  /\ Goto(t, "sp2")
  /\ UNCHANGED <<now, orchVars, servoVars, audio_queue, current_audio_process,
                 audio_lock, w_pc, w_item, w_chunk, is_running, engVars, loc, trace,
                 cancel_hit, calls, linkVars>>

\* 309-314: the file is dropped when the stop flag was set meanwhile,
\* otherwise its path is put on the queue.  The history of a session
\* records what became of the phrases the orchestrator itself speaks.
speak_put(t) ==
  /\ pc[t] = "sp2" /\ Quiet
  /\ audio_queue' = IF stop_speech_flag
                      THEN audio_queue
                      ELSE Append(audio_queue, <<t, loc[t].spk, loc[t].gen_k>>)
  /\ IF loc[t].spk \in {"fallback", "answer"}
       THEN Log(t, <<IF stop_speech_flag THEN "drop" ELSE "put", loc[t].spk>>)
       ELSE UNCHANGED trace
  /\ Goto(t, loc[t].ret)
  /\ utt' = IF stop_speech_flag /\ t = AlertThread
              THEN Forget(Item(loc[t].gen_k)) ELSE utt
  /\ UNCHANGED <<now, orchVars, servoVars, stop_speech_flag,
                 current_audio_process, audio_lock, w_pc, w_item, w_chunk, is_running,
                 stream, led_level, played, loc, cancel_hit, calls,
                 linkVars>>

\* alert_monitor_thread, main.py:160-161: g_esp.speak(alert) for the next
\* alert (asrada_controller.py:433-442 calls my_tts.speak).  loc.gen_k counts
\* the alerts spoken.
alert ==
  /\ pc[AlertThread] = "idle" /\ Quiet
  /\ loc[AlertThread].gen_k < MaxAlerts
  /\ LET k == loc[AlertThread].gen_k + 1 IN
       /\ loc' = [loc EXCEPT ![AlertThread].gen_k = k,
                             ![AlertThread].spk = "alert",
                             ![AlertThread].ret = "idle"]
       /\ utt' = [utt EXCEPT ![k].hit =
                     IF InStop = {} THEN 0 ELSE CHOOSE t \in InStop : TRUE]
  /\ Goto(AlertThread, "sp1")
  /\ UNCHANGED <<now, orchVars, servoVars, audio_queue, stop_speech_flag,
                 current_audio_process, audio_lock, w_pc, w_item, w_chunk, is_running,
                 stream, led_level, played, trace, cancel_hit, calls,
                 linkVars>>

(* ---- AsradaHeadOrchestrator.on_button_press_event: the entry gate ----- *)
CallFrame == Quiet /\ UNCHANGED <<now, servoVars, ttsVars, linkVars>>

\* The history of a call that has returned is forgotten.
Retire(t) ==
  /\ pc[t] = "returned"
  /\ pc' = [pc EXCEPT ![t] = "gone"]
  /\ loc' = [loc EXCEPT ![t] = NoLoc]
  /\ trace' = [trace EXCEPT ![t] = <<>>]
  /\ cancel_hit' = [cancel_hit EXCEPT ![t] = "no"]
  /\ UNCHANGED <<now, orchVars, calls, servoVars, ttsVars, linkVars>>

\* A new call of a handler on slot t: fresh locals and history.
NewCall(t, k) ==
  [NoLoc EXCEPT !.kind = k, !.current_time = now]

\* A step of a cancellation stamps every trigger call it overlaps.
HitAll(t) ==
  cancel_hit' = [u \in Callers |->
                   IF u # t /\ IsTrigger(u) /\ Running(u) /\ cancel_hit[u] = "no"
                     THEN "hit" ELSE cancel_hit[u]]

\* The session of u has not come to its speak(answer) step (362-365).
BeforeSpeak(u) == InSession(u) /\ Where(u) \notin {"s_join", "finally"}

\* The cancellation has run to its end: a session that has not come to its
\* speak(answer) step by then is stamped "early".
HitEarly(t) ==
  cancel_hit' = [u \in Callers |->
                   IF u # t /\ BeforeSpeak(u) THEN "early"
                   ELSE IF u # t /\ IsTrigger(u) /\ Running(u)
                           /\ cancel_hit[u] = "no" THEN "hit"
                   ELSE cancel_hit[u]]

\* 184-192: read the clock and _last_event_start_time; a call inside the
\* debounce window returns at once.
Debounced(t) == now - last_event_start_time < DebounceTicks

Trigger(t, m) ==
  /\ Fresh(t)
  /\ calls' = calls + 1
  /\ UNCHANGED <<trace, cancel_hit>>
  /\ IF Debounced(t)
       THEN /\ loc' = [loc EXCEPT ![t] =
                         [NewCall(t, m) EXCEPT !.outcome = "dropped"]]
            /\ Return(t)
       ELSE /\ loc' = [loc EXCEPT ![t] =
                         [NewCall(t, m) EXCEPT !.outcome = "passed"]]
            /\ Goto(t, "gate_write")
  /\ UNCHANGED orchVars
  /\ CallFrame

\* 195: self._last_event_start_time = current_time
gate_write(t) ==
  /\ pc[t] = "gate_write"
  /\ last_event_start_time' = loc[t].current_time
  /\ loc' = [loc EXCEPT ![t].current_time = 0]     \* not read again
  /\ Goto(t, "gate_tts")
  /\ UNCHANGED <<event_in_progress, cancel_requested, servo2_pos,
                 STOP_LLM_FLAG, force_stop_flag, trace, cancel_hit, calls>>
  /\ CallFrame

\* 200-206: tts_playing = is_tts_active()
gate_tts(t) ==
  /\ pc[t] = "gate_tts"
  /\ loc' = [loc EXCEPT ![t].tts_playing = is_tts_active]
  /\ Goto(t, "gate_check")
  /\ UNCHANGED <<orchVars, trace, cancel_hit, calls>>
  /\ CallFrame

GateBusy_m(t) == event_in_progress /\ loc[t].tts_playing
\* 211: `if self._event_in_progress or tts_playing`
GateBusy(t) == event_in_progress \/ loc[t].tts_playing

\* 211-214: cancel the current activity and return, or go on.
gate_check(t) ==
  /\ pc[t] = "gate_check"
  /\ LET busy == event_in_progress \/ loc[t].tts_playing   \* what the call found
     IN
     IF GateBusy(t)
       THEN /\ loc' = [loc EXCEPT ![t].outcome = "cancel", ![t].busy = busy]
            /\ Log(t, <<"call", "cancel_current_event">>)
            /\ Goto(t, "c_tts")
       ELSE /\ loc' = [loc EXCEPT ![t].busy = busy]
            /\ Goto(t, "gate_clear")
            /\ UNCHANGED trace
  /\ UNCHANGED <<orchVars, cancel_hit, calls>>
  /\ CallFrame

\* 217-219: _cancel_requested.clear(); reset_llm_stop(); force_stop_flag.clear()
\* response_generators.py:54-56: STOP_LLM_FLAG.clear()
reset_llm_stop == FALSE

gate_clear(t) ==
  /\ pc[t] = "gate_clear"
  /\ cancel_requested' = FALSE
  /\ STOP_LLM_FLAG' = reset_llm_stop
  /\ force_stop_flag' = FALSE
  /\ Goto(t, "gate_begin")
  /\ UNCHANGED <<last_event_start_time, event_in_progress, servo2_pos, loc,
                 trace, cancel_hit, calls>>
  /\ CallFrame

\* 222-224: with _event_lock: _event_in_progress = True; clear the flag
gate_begin(t) ==
  /\ pc[t] = "gate_begin"
  /\ event_in_progress' = TRUE
  /\ cancel_requested' = FALSE
  /\ loc' = [loc EXCEPT ![t].outcome = "session"]
  /\ Log(t, <<"begin", "session">>)
  /\ Goto(t, "s_led4on")
  /\ UNCHANGED <<last_event_start_time, servo2_pos, STOP_LLM_FLAG,
                 force_stop_flag, cancel_hit, calls>>
  /\ CallFrame

(* ------------- on_button_press_event: the session (230-386) ------------ *)
\* A step of the session that touches no shared flag.
SessFrame == UNCHANGED <<orchVars, cancel_hit, calls>> /\ CallFrame

\* The early exits `if self._cancel_requested.is_set(): led_set(4, False);
\* return`: the busy indicator goes off and the cleanup block is next.
ExitOff(t) == Log(t, <<"led4", "off">>) /\ Goto(t, "finally")

\* 234-242: led_set(4, True); in full mode the first check of the flag;
\* 281-283: otherwise the text is external_text.
s_led4on(t) ==
  /\ pc[t] = "s_led4on"
  /\ IF loc[t].kind = "full"
       THEN /\ IF cancel_requested
                 THEN /\ trace' = [trace EXCEPT ![t] =
                                     @ \o << <<"led4", "on">>, <<"led4", "off">> >>]
                      /\ Goto(t, "finally")
                 ELSE Log(t, <<"led4", "on">>) /\ Goto(t, "s_beep")
            /\ UNCHANGED loc
       ELSE /\ Log(t, <<"led4", "on">>)
            /\ UNCHANGED loc
            /\ Goto(t, "servo_start")
  /\ SessFrame

\* my_tts.py:188, 285: `with _audio_resource_lock` is entered when no
\* thread holds the lock
AudioFree == audio_lock = "free"

\* A step of play_beep (loc.beep: the stream that play_beep has opened)
BeepFrame ==
  /\ Quiet
  /\ UNCHANGED <<now, orchVars, trace, cancel_hit, calls, servoVars, linkVars,
                 audio_queue, stop_speech_flag, current_audio_process, w_pc,
                 w_item, w_chunk, is_running, engVars>>

\* 245, my_tts.py:270-290: play_beep() takes _audio_resource_lock, so it
\* waits for a playback in progress, and opens its stream; the open may
\* raise, which releases the lock (294)
s_beep(t) ==
  /\ pc[t] = "s_beep"
  /\ AudioFree
  /\ \E ok \in BOOLEAN :
       IF ok THEN /\ audio_lock' = "beep"
                  /\ loc' = [loc EXCEPT ![t].beep = "open"]
                  /\ Goto(t, "s_beep_w")
             ELSE /\ UNCHANGED <<audio_lock, loc>>
                  /\ Goto(t, "s_beep_r")
  /\ BeepFrame

\* my_tts.py:291-292: the tone is written and the stream stopped and
\* closed; or the write raises, which skips line 292 and releases the lock
\* (294)
s_beep_w(t) ==
  /\ pc[t] = "s_beep_w"
  /\ \E ok \in BOOLEAN :
       loc' = [loc EXCEPT ![t].beep = IF ok THEN "None" ELSE @]
  /\ audio_lock' = "free"
  /\ Goto(t, "s_beep_r")
  /\ BeepFrame

\* play_beep returns (a stream it left open is gone with its locals);
\* 246-252: then the flag is read.
s_beep_r(t) ==
  /\ pc[t] = "s_beep_r"
  /\ loc' = [loc EXCEPT ![t].beep = "None"]
  /\ IF cancel_requested
       THEN /\ trace' = [trace EXCEPT ![t] =
                           @ \o << <<"beep", "played">>, <<"led4", "off">> >>]
            /\ Goto(t, "finally")
       ELSE Log(t, <<"beep", "played">>) /\ Goto(t, "s_listen")
  /\ SessFrame

\* 268: `if self._cancel_requested.is_set()`
CancelSeen == cancel_requested
NothingHeard_m(text) == FALSE
\* 273: `if not recognized_text`
NothingHeard(text) == text = ""

\* 254-279: listening indicator on; listen() returns a text, the empty
\* string, or raises (the text is then the empty string); indicator off;
\* then: cancelled, nothing recognized (speak the fallback), or go on.
s_listen(t) ==
  /\ pc[t] = "s_listen"
  /\ \E r \in {"q", "", "raise"} :
       LET text == IF r = "raise" THEN "" ELSE r
           heard == << <<"led5", "on">>, <<"listen", text>>, <<"led5", "off">> >>
       IN  IF CancelSeen
             THEN /\ trace' = [trace EXCEPT ![t] = @ \o heard \o << <<"led4", "off">> >>]
                  /\ Goto(t, "finally")
                  /\ UNCHANGED loc
             ELSE IF NothingHeard(text)
               THEN /\ trace' = [trace EXCEPT ![t] =
                                   @ \o heard \o << <<"speak", "fallback">> >>]
                    /\ CallSpeak(t, "fallback", "s_fb_off")
               ELSE /\ trace' = [trace EXCEPT ![t] = @ \o heard]
                    /\ UNCHANGED loc
                    /\ Goto(t, "servo_start")
  /\ SessFrame

\* 377-386: the cleanup block
Cleanup(t) ==
  /\ event_in_progress' = FALSE
  /\ cancel_requested' = FALSE

EndFrame(t) ==
  /\ Return(t)
  /\ UNCHANGED <<last_event_start_time, servo2_pos, STOP_LLM_FLAG,
                 force_stop_flag, loc, cancel_hit, calls>>
  /\ CallFrame

\* 276-277 after the fallback phrase: indicator off, return through the
\* cleanup block.
s_fb_off(t) ==
  /\ pc[t] = "s_fb_off"
  /\ trace' = [trace EXCEPT ![t] =
                 @ \o << <<"led4", "off">>, <<"clear", "in_progress">> >>]
  /\ Cleanup(t)
  /\ EndFrame(t)

\* 326-344: the actuator thread is created and started, then the flag is
\* read.  Thread.start() can raise (RuntimeError: can't start new thread),
\* which the handler's outer `except Exception` (375-376) only prints.
servo_start(t) ==
  /\ pc[t] = "servo_start" /\ Quiet
  /\ \/ /\ servo_pc' = [servo_pc EXCEPT ![t] = "sv0"]
        /\ servo_i' = [servo_i EXCEPT ![t] = 0]
        /\ servo_cmds' = [servo_cmds EXCEPT ![t] = <<>>]
        /\ UNCHANGED <<servo_note, servo_lock>>
        /\ IF cancel_requested
             THEN /\ trace' = [trace EXCEPT ![t] =
                                 @ \o << <<"servo", "start">>, <<"led4", "off">> >>]
                  /\ Goto(t, "finally")
             ELSE /\ trace' = [trace EXCEPT ![t] =
                                 @ \o << <<"servo", "start">>,
                                         <<"call", "process_question">> >>]
                  /\ Goto(t, "pq1")
     \/ /\ Log(t, <<"raise", "thread_start">>)
        /\ Goto(t, "finally")
        /\ UNCHANGED servoVars
  /\ UNCHANGED <<now, ttsVars, orchVars, loc, cancel_hit, calls, linkVars>>

(* ------- CarAISystem.process_question (car_ai_system.py:145-212) ------- *)
\* The pipeline reads STOP_LLM_FLAG at lines 150, 158, 178 and 188 and
\* returns "stopped" when it is set; between the reads it runs a stage
\* (update_vector_db, classify_question, retrieve_data) that may raise to
\* the orchestrator.
Stopped(t) ==
  /\ loc' = [loc EXCEPT ![t].answer = "stopped", ![t].qtype = "none",
                ![t].gen_k = 0, ![t].chunk = "none", ![t].residual = FALSE]
  /\ Log(t, <<"return", "stopped">>)
  /\ Goto(t, "ai_post")

\* 150-187: the first three reads and stages.  A flag set between two of
\* them is found by the next read, as one set before the first is.
pq1(t) ==
  /\ pc[t] = "pq1"
  /\ IF STOP_LLM_FLAG
       THEN Stopped(t)
       ELSE \/ Goto(t, "pq4") /\ UNCHANGED <<loc, trace>>
            \/ /\ Log(t, <<"raise", "process_question">>)
               /\ Goto(t, "ai_exc")
               /\ UNCHANGED loc
  /\ SessFrame

\* 188-200: the last check, then the response by question type.
\* generate_control_response returns a fixed sentence; generate_car_data_response
\* returns at once without a context (response_generators.py:65-66).
pq4(t) ==
  /\ pc[t] = "pq4"
  /\ IF STOP_LLM_FLAG
       THEN Stopped(t)
       ELSE \E q \in {"car_control", "car_data", "general"}, ctx \in BOOLEAN :
              /\ q # "car_data" => ctx
              /\ IF q = "car_control" \/ ~ctx
                   THEN /\ loc' = [loc EXCEPT ![t].answer =
                                      IF q = "car_control" THEN "control"
                                                           ELSE "nodata"]
                        /\ Log(t, <<"return", "answer">>)
                        /\ Goto(t, "ai_post")
                   ELSE /\ loc' = [loc EXCEPT ![t].qtype = q]
                        /\ Goto(t, "gen_clear")
                        /\ UNCHANGED trace
  /\ SessFrame

(* generate_car_data_response / generate_general_response                  *)
(* (response_generators.py:77-122, 134-176)                                *)
\* 81 / 140: STOP_LLM_FLAG.clear()
gen_clear(t) ==
  /\ pc[t] = "gen_clear"
  /\ STOP_LLM_FLAG' = FALSE
  /\ Goto(t, "gen_84")
  /\ UNCHANGED <<last_event_start_time, event_in_progress, cancel_requested,
                 servo2_pos, force_stop_flag, loc, trace, cancel_hit, calls>>
  /\ CallFrame

\* 84 / 143
gen_84(t) ==
  /\ pc[t] = "gen_84"
  /\ IF STOP_LLM_FLAG
       THEN Stopped(t)
       ELSE /\ loc' = [loc EXCEPT ![t].gen_k = 0, ![t].residual = FALSE]
            /\ Goto(t, "gen_89")
            /\ UNCHANGED trace
  /\ SessFrame

\* 87-97 / 146-156: the stream ends, raises, or yields a chunk: text that
\* ends a sentence or text that does not.
gen_89(t) ==
  /\ pc[t] = "gen_89"
  /\ IF loc[t].gen_k = StreamChunks
       THEN Goto(t, "gen_119") /\ UNCHANGED <<loc, trace>>
       ELSE \/ /\ Log(t, <<"raise", "stream">>)
               /\ Goto(t, "gen_exc")
               /\ UNCHANGED loc
            \/ IF STOP_LLM_FLAG
                 THEN Stopped(t)
                 ELSE \E c \in {"sentence", "partial"} :
                        /\ loc' = [loc EXCEPT ![t].gen_k = @ + 1, ![t].chunk = c,
                                     ![t].residual = (c = "partial")]
                        /\ Goto(t, "gen_103")
                        /\ UNCHANGED trace
  /\ SessFrame

\* 100-105 / 158-163: a finished sentence is spoken unless a stop flag is set.
gen_103(t) ==
  /\ pc[t] = "gen_103"
  /\ IF loc[t].chunk = "sentence" /\ ~(STOP_LLM_FLAG \/ force_stop_flag)
       THEN CallSpeak(t, "sentence", "gen_108")
       ELSE Goto(t, "gen_108") /\ UNCHANGED loc
  /\ UNCHANGED trace
  /\ SessFrame

\* 108-109 / 166-167: leave the loop when a stop flag is set.  (The timed
\* flush of 112-116 / 169-173 speaks the text left over earlier than
\* 119 / 175 does, under the same condition.)
gen_108(t) ==
  /\ pc[t] = "gen_108"
  /\ Goto(t, IF STOP_LLM_FLAG \/ force_stop_flag THEN "gen_119" ELSE "gen_89")
  /\ UNCHANGED <<loc, trace>>
  /\ SessFrame

\* 122: generate_car_data_response returns ""; generate_general_response
\* ends without a return statement (None).
GenAnswer(t) == IF loc[t].qtype = "car_data" THEN "" ELSE "None"

\* 119-120 / 175-176: the text left over at the end of the stream
gen_119(t) ==
  /\ pc[t] = "gen_119"
  /\ IF loc[t].residual /\ ~STOP_LLM_FLAG /\ ~force_stop_flag
       THEN /\ loc' = [loc EXCEPT ![t].spk = "rest", ![t].ret = "ai_post",
                         ![t].answer = GenAnswer(t), ![t].qtype = "none",
                         ![t].chunk = "none", ![t].residual = FALSE]
            /\ Goto(t, "sp1")
       ELSE /\ loc' = [loc EXCEPT ![t].answer = GenAnswer(t),
                         ![t].qtype = "none", ![t].gen_k = 0,
                         ![t].chunk = "none", ![t].residual = FALSE]
            /\ Goto(t, "ai_post")
  /\ Log(t, <<"return", "answer">>)
  /\ SessFrame

\* car_ai_system.py:201-207: an exception of the response generator
gen_exc(t) ==
  /\ pc[t] = "gen_exc"
  /\ IF STOP_LLM_FLAG
       THEN Stopped(t)
       ELSE /\ loc' = [loc EXCEPT ![t].answer = "generr", ![t].qtype = "none",
                         ![t].gen_k = 0, ![t].chunk = "none",
                         ![t].residual = FALSE]
            /\ Log(t, <<"return", "answer">>)
            /\ Goto(t, "ai_post")
  /\ SessFrame

(* -------------- on_button_press_event: after the query ----------------- *)
\* 347 / 355: `self._cancel_requested.is_set() or STOP_LLM_FLAG.is_set()`
StopSeen == cancel_requested \/ STOP_LLM_FLAG

\* 346-352
ai_post(t) ==
  /\ pc[t] = "ai_post"
  /\ IF StopSeen THEN ExitOff(t)
                 ELSE Goto(t, "s_speak") /\ UNCHANGED trace
  /\ UNCHANGED loc
  /\ SessFrame

\* 353-360: process_question raised
ai_exc(t) ==
  /\ pc[t] = "ai_exc"
  /\ IF StopSeen
       THEN ExitOff(t) /\ UNCHANGED loc
       ELSE /\ loc' = [loc EXCEPT ![t].answer = "diag"]
            /\ Goto(t, "s_speak")
            /\ UNCHANGED trace
  /\ SessFrame

MaySpeak_m == FALSE
\* 364: `if not self._cancel_requested.is_set()`
MaySpeak == ~cancel_requested

\* 362-365: speak(answer); speak returns at once for an empty text or None
\* (my_tts.py:301).
s_speak(t) ==
  /\ pc[t] = "s_speak"
  /\ IF MaySpeak
       THEN /\ trace' = [trace EXCEPT ![t] = Append(@, <<"speak", loc[t].answer>>)]
            /\ IF loc[t].answer \in {"", "None"}
                 THEN Goto(t, "s_join") /\ UNCHANGED loc
                 ELSE CallSpeak(t, "answer", "s_join")
       ELSE Goto(t, "s_join") /\ UNCHANGED <<loc, trace>>
  /\ SessFrame

JoinReturns_m(t, timed_out) == servo_pc[t] = "done"
\* 367: servo_thread.join(timeout=3) returns when the thread has ended, or
\* when the 3 s have gone by, however far the thread has come by then
JoinReturns(t, timed_out) == servo_pc[t] = "done" \/ timed_out

\* 367-386: servo_thread.join(timeout=3); indicator off; return through the
\* cleanup block.
s_join(t) ==
  /\ pc[t] = "s_join"
  /\ \E timed_out \in BOOLEAN : JoinReturns(t, timed_out)
  /\ trace' = [trace EXCEPT ![t] =
                 @ \o << <<"join", "servo_thread">>, <<"led4", "off">>,
                         <<"clear", "in_progress">> >>]
  /\ Cleanup(t)
  /\ EndFrame(t)

\* 377-386 after an early return or an exception
finally(t) ==
  /\ pc[t] = "finally"
  /\ Log(t, <<"clear", "in_progress">>)
  /\ Cleanup(t)
  /\ EndFrame(t)

(* ------- AsradaHeadOrchestrator.cancel_current_event (388-431) --------- *)
\* Called from on_button_press_event (213) or directly (main.py:297).
DirectCancel(t) ==
  /\ Fresh(t)
  /\ calls' = calls + 1
  /\ loc' = [loc EXCEPT ![t] = NewCall(t, "cancel")]
  /\ UNCHANGED <<trace, cancel_hit>>
  /\ Goto(t, "c_tts")
  /\ UNCHANGED orchVars
  /\ CallFrame

\* 391-397: tts_playing = is_tts_active()
c_tts(t) ==
  /\ pc[t] = "c_tts"
  /\ loc' = [loc EXCEPT ![t].tts_playing = is_tts_active,
                ![t].at_cancel = Range(audio_queue)]   \* queued at the call
  /\ Goto(t, "c_check")
  /\ UNCHANGED <<orchVars, trace, cancel_hit, calls>>
  /\ CallFrame

NothingToCancel_m(t) == FALSE
\* 402: `if not self._event_in_progress and not tts_playing`
NothingToCancel(t) == ~event_in_progress /\ ~loc[t].tts_playing

\* 402-404: nothing to cancel: return.  Otherwise every trigger call in
\* progress from here on is overlapped by this cancellation.
c_check(t) ==
  /\ pc[t] = "c_check"
  /\ IF NothingToCancel(t)
       THEN /\ loc' = [loc EXCEPT ![t].cres = "noop"]
            /\ Return(t)
            /\ UNCHANGED <<trace, cancel_hit>>
       ELSE /\ loc' = [loc EXCEPT ![t].cres = "proceeded"]
            /\ Goto(t, "c_set")
            /\ UNCHANGED trace
            /\ HitAll(t)
  /\ UNCHANGED <<orchVars, calls>>
  /\ CallFrame

\* The full-mode sessions that are past the check after the prompt tone
\* (249) and have not come to the check after speech capture (268)
InCapture == {u \in Callers : loc[u].kind = "full" /\ pc[u] = "s_listen"}

\* The sessions whose actuator thread is running, in a wait slice (302-306,
\* 316-320) or between two motions, before the next check of the flag
Moving == {u \in Callers :
             servo_pc[u] \in {"sv_c1", "sv_w1", "sv_p2", "sv_c2", "sv_w2", "sv_p3"}}

\* 409-411.  (loc.capturing: the sessions that were in speech capture when
\* this cancellation set the flags; loc.moving: those whose actuator thread
\* was running.)
c_set(t) ==
  /\ pc[t] = "c_set"
  /\ cancel_requested' = TRUE
  /\ STOP_LLM_FLAG' = TRUE
  /\ force_stop_flag' = TRUE
  /\ loc' = [loc EXCEPT ![t].capturing = InCapture, ![t].moving = Moving]
  /\ Log(t, <<"set", "flags">>)
  /\ HitAll(t)
  /\ Goto(t, "c_llm")
  /\ UNCHANGED <<last_event_start_time, event_in_progress, servo2_pos, calls>>
  /\ CallFrame

\* 414: stop_all_llm() (response_generators.py:48-52) sets STOP_LLM_FLAG and
\* calls stop_current_speech()
c_llm(t) ==
  /\ pc[t] = "c_llm"
  /\ STOP_LLM_FLAG' = TRUE
  /\ loc' = [loc EXCEPT ![t].ret = "c_scs2"]
  /\ Log(t, <<"set", "STOP_LLM_FLAG">>)
  /\ HitAll(t)
  /\ Goto(t, "scs_a")
  /\ UNCHANGED <<last_event_start_time, event_in_progress, cancel_requested,
                 servo2_pos, force_stop_flag, calls>>
  /\ CallFrame

\* my_tts.stop_current_speech, 162: `if current_audio_process is None: return`
NothingPlaying == current_audio_process = "None"

\* 159-162: stop_current_speech returns at once when nothing is playing
scs_a(t) ==
  /\ pc[t] = "scs_a" /\ Quiet
  /\ Goto(t, IF NothingPlaying THEN loc[t].ret ELSE "scs_set")
  /\ HitAll(t)
  /\ UNCHANGED <<now, orchVars, servoVars, ttsVars, loc, trace, calls, linkVars>>

\* 164-167: the stop flag, indicator level 0, current_audio_process = None
scs_set(t) ==
  /\ pc[t] = "scs_set" /\ Quiet
  /\ stop_speech_flag' = TRUE
  /\ current_audio_process' = "None"
  /\ led_level' = 0
  /\ Log(t, <<"led_level", "0">>)
  /\ utt' = Stamp([k \in Alerts |->
                     [utt[k] EXCEPT
                        !.hit = IF @ = 0 /\ (Speaking(k) \/ Queued(k))
                                  THEN t ELSE @,
                        !.cut = IF @ = 0 /\ InLoop(k) THEN t ELSE @]])
  /\ played' = Disturbed
  /\ Goto(t, "scs_b")
  /\ HitAll(t)
  /\ UNCHANGED <<now, orchVars, servoVars, audio_queue, audio_lock, w_pc,
                 w_item, w_chunk, is_running, stream, loc, calls, linkVars>>

\* 169-178: the queue is emptied
scs_b(t) ==
  /\ pc[t] = "scs_b" /\ Quiet
  /\ audio_queue' = <<>>
  /\ Log(t, <<"drain", "queue">>)
  /\ utt' = [k \in Alerts |-> [utt[k] EXCEPT !.hit = IF @ = t THEN -1 ELSE @]]
  /\ HitAll(t)
  /\ Goto(t, loc[t].ret)
  /\ UNCHANGED <<now, orchVars, servoVars, stop_speech_flag,
                 current_audio_process, audio_lock, w_pc, w_item, w_chunk, is_running,
                 stream, led_level, played, loc, calls, linkVars>>

\* 417: stop_current_speech() again
c_scs2(t) ==
  /\ pc[t] = "c_scs2"
  /\ loc' = [loc EXCEPT ![t].ret = "c_leds"]
  /\ Goto(t, "scs_a")
  /\ UNCHANGED <<orchVars, trace, cancel_hit, calls>>
  /\ CallFrame

\* 420-421: led_set(4, False); led_set(5, False)
c_leds(t) ==
  /\ pc[t] = "c_leds"
  /\ trace' = [trace EXCEPT ![t] = @ \o << <<"led4", "off">>, <<"led5", "off">> >>]
  /\ Goto(t, "c_clear")
  /\ UNCHANGED <<orchVars, loc, cancel_hit, calls>>
  /\ CallFrame

\* 427-429: with _event_lock: _event_in_progress = False; clear the flag
c_clear(t) ==
  /\ pc[t] = "c_clear"
  /\ Cleanup(t)
  /\ Log(t, <<"clear", "in_progress">>)
  /\ HitAll(t)
  /\ Goto(t, "c_done")
  /\ UNCHANGED <<last_event_start_time, servo2_pos, STOP_LLM_FLAG,
                 force_stop_flag, loc, calls>>
  /\ CallFrame

\* 431: cancel_current_event returns (and, called from line 213, so does
\* on_button_press_event).
c_done(t) ==
  /\ pc[t] = "c_done" /\ Quiet
  /\ Return(t)
  /\ HitEarly(t)
  /\ utt' = [k \in Alerts |-> [utt[k] EXCEPT !.cut = IF @ = t THEN -1 ELSE @]]
  /\ UNCHANGED <<orchVars, loc, trace, calls>>
  /\ UNCHANGED <<now, servoVars, audio_queue, stop_speech_flag,
                 current_audio_process, audio_lock, w_pc, w_item, w_chunk, is_running,
                 stream, led_level, played, linkVars>>

(* ---------- servo_worker, the actuator thread (286-324) ---------------- *)
\* AsradaHeadOrchestrator.is_connected (60-62)
link_up == head.connected /\ head.sock # "None"

SvGoto(t, p) == servo_pc' = [servo_pc EXCEPT ![t] = p]
SvFrame == Quiet /\ UNCHANGED <<now, last_event_start_time, event_in_progress,
                       cancel_requested, STOP_LLM_FLAG, force_stop_flag,
                       callVars, ttsVars, linkVars>>

\* servo_note: "ok" until the thread finds the cancellation flag set
\* ("cancel") or the link disconnected ("down")
Note(t, what) ==
  servo_note' = [servo_note EXCEPT ![t] = IF @ = "ok" THEN what ELSE @]

\* 290-292, 298-300, 312-314: `if cancel_flag.is_set(): return`
sv_check(t, here, next) ==
  /\ servo_pc[t] = here
  /\ SvGoto(t, IF cancel_requested THEN "done" ELSE next)
  /\ Note(t, IF cancel_requested THEN "cancel" ELSE "ok")
  /\ servo_i' = [servo_i EXCEPT ![t] = 0]
  /\ UNCHANGED <<servo2_pos, servo_cmds, servo_lock>>
  /\ SvFrame

sv0(t) == sv_check(t, "sv0", "sv_p1")
sv_c1(t) == sv_check(t, "sv_c1", "sv_w1")
sv_c2(t) == sv_check(t, "sv_c2", "sv_w2")

LockFree_m == TRUE
\* 122, 138: `with self._lock` is entered when no other thread holds the lock
LockFree == servo_lock = 0

\* What a motion routine finds at its checks (123-130, 139-146)
Found == IF ~link_up THEN "down" ELSE IF cancel_requested THEN "cancel" ELSE "ok"

RestCommand_m == <<3, 90>>
\* 132: self.servo_set(3, 0)
RestCommand == <<3, 0>>

\* _servo1_pattern (117-132), under self._lock: servo_set(3, 0) unless
\* disconnected or cancelled
sv_pattern(t, here, next) ==
  /\ servo_pc[t] = here
  /\ LockFree
  /\ servo_cmds' = IF Found = "ok"
                     THEN [servo_cmds EXCEPT ![t] = Append(@, RestCommand)]
                     ELSE servo_cmds
  /\ Note(t, Found)
  /\ SvGoto(t, next)
  /\ UNCHANGED <<servo2_pos, servo_i, servo_lock>>
  /\ SvFrame

sv_p1(t) == sv_pattern(t, "sv_p1", "sv_c1")
sv_p3(t) == sv_pattern(t, "sv_p3", "done")

\* 302-306 and 316-320: n slices of 0.5 s, the flag read before each
sv_wait(t, here, n, next) ==
  /\ servo_pc[t] = here
  /\ IF servo_i[t] = n
       THEN SvGoto(t, next) /\ UNCHANGED <<servo_i, servo_note>>
       ELSE IF cancel_requested
         THEN SvGoto(t, "done") /\ Note(t, "cancel") /\ UNCHANGED servo_i
         ELSE /\ servo_i' = [servo_i EXCEPT ![t] = @ + 1]
              /\ UNCHANGED <<servo_pc, servo_note>>
  /\ UNCHANGED <<servo2_pos, servo_cmds, servo_lock>>
  /\ SvFrame

sv_w1(t) == sv_wait(t, "sv_w1", Slices1, "sv_p2")
sv_w2(t) == sv_wait(t, "sv_w2", Slices2, "sv_p3")

\* _servo2_move_once (137-155).  138-146: the lock is taken; a thread that
\* finds the link disconnected or the flag set returns
sv_p2(t) ==
  /\ servo_pc[t] = "sv_p2"
  /\ LockFree
  /\ IF Found = "ok"
       THEN servo_lock' = t /\ SvGoto(t, "sv_m148")
       ELSE UNCHANGED servo_lock /\ SvGoto(t, "sv_c2")
  /\ Note(t, Found)
  /\ UNCHANGED <<servo2_pos, servo_i, servo_cmds>>
  /\ SvFrame

\* 148: `if self.servo2_pos == 2`
sv_m148(t) ==
  /\ servo_pc[t] = "sv_m148"
  /\ SvGoto(t, IF servo2_pos = 2 THEN "sv_m149" ELSE "sv_m153")
  /\ UNCHANGED <<servo2_pos, servo_i, servo_cmds, servo_note, servo_lock>>
  /\ SvFrame

\* random.randint(30, 60) and random.randint(120, 150): the ends of the
\* ranges and a value inside
Servo2Angles(side) == IF side = 1 THEN {30, 45, 60} ELSE {120, 135, 150}

\* 149-151 and 153-155: servo2_pos is set to `side`, a random angle of that
\* side is commanded, and the lock is released
sv_move(t, here, side) ==
  /\ servo_pc[t] = here
  /\ servo2_pos' = side
  /\ \E a \in Servo2Angles(side) :
       servo_cmds' = [servo_cmds EXCEPT ![t] = Append(@, <<2, a>>)]
  /\ servo_lock' = 0
  /\ SvGoto(t, "sv_c2")
  /\ UNCHANGED <<servo_i, servo_note>>
  /\ SvFrame

sv_m149(t) == sv_move(t, "sv_m149", 1)
sv_m153(t) == sv_move(t, "sv_m153", 2)

(* ------------- audio_worker, the playback worker (236-264) ------------- *)
WFrame == Quiet /\ UNCHANGED <<now, orchVars, callVars, servoVars, linkVars,
                               is_running>>

NextRequest_m(q) == q[Len(q)]
\* queue.Queue is first in, first out
NextRequest(q) == Head(q)

\* 327: the None that stop_tts puts on the queue to end the worker
Sentinel == <<-1, "None", 0>>

\* 239-243: while is_running, file_path = audio_queue.get(timeout=0.5);
\* `if file_path is None: break`
w_get ==
  /\ w_pc = "w_get"
  /\ is_running
  /\ audio_queue # <<>>
  /\ w_item' = IF NextRequest(audio_queue) = Sentinel THEN <<>>
                ELSE NextRequest(audio_queue)
  /\ audio_queue' = Tail(audio_queue)
  /\ w_pc' = IF NextRequest(audio_queue) = Sentinel THEN "w_stopped" ELSE "w_chk"
  /\ UNCHANGED <<stop_speech_flag, current_audio_process, audio_lock, w_chunk,
                 engVars>>
  /\ WFrame

\* 245-251: a request taken while the stop flag is set is discarded
w_chk ==
  /\ w_pc = "w_chk"
  /\ IF stop_speech_flag
       THEN /\ w_pc' = "w_get" /\ w_item' = <<>>
            /\ played' = Record(w_item, 0)
            /\ utt' = Forget(w_item)
       ELSE /\ w_pc' = "w_enter" /\ UNCHANGED <<w_item, played, utt>>
  /\ UNCHANGED <<audio_queue, stop_speech_flag, current_audio_process,
                 audio_lock, w_chunk, stream, led_level>>
  /\ WFrame

\* play_and_monitor_sync 188-189: take _audio_resource_lock, mark playing
w_enter ==
  /\ w_pc = "w_enter"
  /\ AudioFree
  /\ audio_lock' = "worker"
  /\ current_audio_process' = "playing"
  /\ w_chunk' = 0
  /\ w_pc' = "w_open"
  /\ UNCHANGED <<audio_queue, stop_speech_flag, w_item, engVars>>
  /\ WFrame

\* The level computed for a chunk (214-223), for a chunk that is not silent
ChunkLevel == MaxLevel

\* 190-204: clear the stop flag; open the stream, which may fail (227);
\* send level 0
w_open ==
  /\ w_pc = "w_open"
  /\ stop_speech_flag' = FALSE
  /\ \E ok \in BOOLEAN :
       IF ok THEN /\ stream' = "open"
                  /\ led_level' = 0
                  /\ w_pc' = "w_play"
                  /\ UNCHANGED played
             ELSE /\ w_pc' = "w_fin"
                  /\ played' = Disturbed
                  /\ UNCHANGED <<stream, led_level>>
  /\ UNCHANGED <<audio_queue, current_audio_process, audio_lock, w_item,
                 w_chunk, utt>>
  /\ WFrame

\* 207-225: while there are frames left and the stop flag is not set, one
\* chunk is written and its level sent; the write may fail (227)
w_play ==
  /\ w_pc = "w_play"
  /\ IF w_chunk < NumChunks /\ ~stop_speech_flag
       THEN \E ok \in BOOLEAN :
              IF ok
                THEN /\ w_chunk' = w_chunk + 1
                     /\ led_level' = ChunkLevel
                     /\ UNCHANGED <<w_pc, played>>
                ELSE /\ w_pc' = "w_fin"
                     /\ played' = Disturbed
                     /\ UNCHANGED <<w_chunk, led_level>>
       ELSE /\ w_pc' = "w_fin"
            /\ UNCHANGED <<w_chunk, led_level, played>>
  /\ UNCHANGED <<audio_queue, stop_speech_flag, current_audio_process,
                 audio_lock, w_item, stream, utt>>
  /\ WFrame

CloseStream_m(st) == st
\* 232: `if stream: stream.stop_stream(); stream.close()`
CloseStream(st) == IF st = "open" THEN "closed" ELSE st

\* play_and_monitor_sync returns: a closed stream is gone with the locals
Release(st) == IF st = "closed" THEN "None" ELSE st

\* 230-234 and 255-258, the cleanup of a playback: current_audio_process =
\* None, the stream is closed, level 0 is sent, the stop flag is cleared;
\* the lock is released, the file is removed and the worker goes back to
\* the queue
w_fin ==
  /\ w_pc = "w_fin"
  /\ current_audio_process' = "None"
  /\ stream' = Release(CloseStream(stream))
  /\ led_level' = 0
  /\ stop_speech_flag' = FALSE
  /\ audio_lock' = "free"
  /\ played' = Record(w_item, w_chunk)
  /\ utt' = Forget(w_item)
  /\ w_item' = <<>>
  /\ w_chunk' = 0
  /\ w_pc' = "w_get"
  /\ UNCHANGED audio_queue
  /\ WFrame

\* 239: `while is_running` ends the worker once stop_tts has cleared it
w_exit ==
  /\ w_pc = "w_get"
  /\ ~is_running
  /\ w_pc' = "w_stopped"
  /\ UNCHANGED <<audio_queue, stop_speech_flag, current_audio_process,
                 audio_lock, w_item, w_chunk, engVars>>
  /\ WFrame

(* ------------------------ stop_tts (321-339) --------------------------- *)
\* A step of stop_tts
StopFrame ==
  /\ Quiet
  /\ UNCHANGED <<now, orchVars, trace, cancel_hit, servoVars, linkVars,
                 current_audio_process, audio_lock, w_pc, w_item, w_chunk,
                 stream, led_level>>

\* 325: stop_tts is called, on a thread that has run nothing else;
\* is_running = False
stop_tts(t) ==
  /\ pc[t] = "idle"
  /\ loc' = [loc EXCEPT ![t] = NewCall(t, "stop_tts")]
  /\ is_running' = FALSE
  /\ Goto(t, "st_flag")
  /\ UNCHANGED <<audio_queue, stop_speech_flag, played, utt, calls>>
  /\ StopFrame

\* 326: stop_speech_flag.set()
st_flag(t) ==
  /\ pc[t] = "st_flag"
  /\ stop_speech_flag' = TRUE
  /\ played' = Disturbed
  /\ utt' = Stamp(utt)
  /\ Goto(t, "st_put")
  /\ UNCHANGED <<audio_queue, is_running, loc, calls>>
  /\ StopFrame

\* 327-339: audio_queue.put(None); the worker is waited for at most 2 s
\* (328) and stop_tts returns
st_put(t) ==
  /\ pc[t] = "st_put"
  /\ audio_queue' = Append(audio_queue, Sentinel)
  /\ Return(t)
  /\ UNCHANGED <<stop_speech_flag, is_running, played, utt, loc, calls>>
  /\ StopFrame

(* ------------------ Device Link (asrada_head.py) ----------------------- *)
\* AsradaHead.is_connected (72-74)
is_connected == head.connected /\ head.sock # "None"

LQuiet == \A c \in Clients : lk[c].pc # "returned"
LFrame == LQuiet /\ UNCHANGED <<now, orchVars, callVars, servoVars, ttsVars>>
LGoto(c, p) == [lk[c] EXCEPT !.pc = p]
\* The call returns r.
LReturn(c, r) == [lk[c] EXCEPT !.pc = "returned", !.result = r]
LSet(c, rec) == lk' = [lk EXCEPT ![c] = rec]

\* The history of a call that has returned is forgotten.
LRetire(c) ==
  /\ lk[c].pc = "returned"
  /\ LSet(c, NoCmd)
  /\ UNCHANGED <<head, lcalls>>
  /\ UNCHANGED <<now, orchVars, callVars, servoVars, ttsVars>>

\* A client calls a convenience command (184-233), connect() or close().
\* A rejected argument returns False at once; otherwise the command encodes
\* its data and enters send_packet.
Call(c, cmds) ==
  /\ lk[c].pc = "idle" /\ lcalls < MaxCmds
  /\ \A d \in Clients : d < c => lk[d].pc # "idle"   \* the first idle thread
  /\ lcalls' = lcalls + 1
  /\ \E cmd \in cmds :
       LET call == [NoCmd EXCEPT !.cmd = cmd.name, !.a = cmd.a, !.b = cmd.b,
                                 !.down = ~(head.connected /\ head.sock # "None"),
                                 !.rejected =
                                    IF ~Rejected(cmd) THEN "no"
                                    ELSE IF cmd.name = "send_led_level"
                                      THEN "level" ELSE "length"]
       IN  LSet(c, IF cmd.name = "connect" THEN [call EXCEPT !.pc = "con_check"]
                   ELSE IF cmd.name = "close" THEN [call EXCEPT !.pc = "close"]
                   ELSE IF Rejected(cmd) THEN [call EXCEPT !.pc = "returned",
                                                           !.result = "False"]
                   ELSE [call EXCEPT !.pc = "snd_check",
                                     !.packet = Packet(cmd)])
  /\ UNCHANGED head
  /\ LFrame

\* The calls that open or close the transport, and one that writes to it
TransportCommands ==
  {cmd \in Commands : cmd.name \in {"connect", "close", "reboot_esp"}
                        \/ (cmd.name = "led_set" /\ cmd.b = 1)}

\* The first thread makes any call; a second thread, while the first is in
\* a call, makes one that opens, closes or writes to the transport
LinkCall(c) == Call(c, IF c = 1 THEN Commands ELSE TransportCommands)

\* servo_set(servo_index, angle) (200-208) called by one thread
ServoCall(c) == c = 1 /\ Call(c, ServoCommands)

NeedsConnect_m == FALSE
\* send_packet, 157: `if not self.is_connected()`
NeedsConnect == ~is_connected

\* 157-159: a disconnected link is connected first.  (`down` records that
\* the link was disconnected when the command was called and still is.)
StillUp == head.connected /\ head.sock # "None"
snd_check(c) ==
  /\ lk[c].pc = "snd_check"
  /\ LSet(c, IF NeedsConnect
               THEN [lk[c] EXCEPT !.pc = "con_check", !.connects = @ + 1,
                                  !.down = @ /\ ~StillUp]
               ELSE [lk[c] EXCEPT !.pc = "snd_send",
                                  !.down = @ /\ ~StillUp])
  /\ UNCHANGED <<head, lcalls>>
  /\ LFrame

\* connect() returns r: to its caller, or into send_packet (159-160), which
\* returns False when the connection failed.
ConnectReturns(c, r) ==
  IF lk[c].cmd = "connect" THEN LReturn(c, IF r THEN "True" ELSE "False")
  ELSE IF r THEN [lk[c] EXCEPT !.pc = "snd_send", !.con = "True"]
  ELSE [lk[c] EXCEPT !.pc = "returned", !.con = "False", !.result = "False"]

\* connect, 85-87
con_check(c) ==
  /\ lk[c].pc = "con_check"
  /\ LSet(c, IF is_connected THEN ConnectReturns(c, TRUE)
             ELSE [lk[c] EXCEPT !.pc = "con_disc", !.attempt = 0])
  /\ UNCHANGED <<head, lcalls>>
  /\ LFrame

\* 89-101, 128-129: one discovery query per attempt; it finds the device
\* or not
Exhausted_m(c) == lk[c].attempt = retry_count - 1
\* 89: `for attempt in range(retry_count)` has run out
Exhausted(c) == lk[c].attempt = retry_count

con_disc(c) ==
  /\ lk[c].pc = "con_disc"
  /\ IF Exhausted(c)
       THEN LSet(c, ConnectReturns(c, FALSE)) /\ UNCHANGED head
       ELSE \E found \in BOOLEAN :
              IF found
                THEN /\ LSet(c, [lk[c] EXCEPT !.pc = "con_sock",
                                              !.queries = @ + 1,
                                              !.found = TRUE])
                     \* 95: self.ip, self.port = result
                     /\ head' = [head EXCEPT !.addr = "discovered"]
                ELSE /\ LSet(c, [lk[c] EXCEPT !.attempt = @ + 1,
                                              !.queries = @ + 1])
                     /\ UNCHANGED head
  /\ UNCHANGED lcalls
  /\ LFrame

\* 106: self.sock = socket.socket(...)
con_sock(c) ==
  /\ lk[c].pc = "con_sock"
  /\ head' = [head EXCEPT !.sock = "new", !.eof = FALSE]
  /\ LSet(c, [lk[c] EXCEPT !.pc = "con_tcp", !.opened = TRUE])
  /\ UNCHANGED lcalls
  /\ LFrame

\* 108, 122-126: self.sock.connect((self.ip, self.port)): the TCP
\* connection is made, or it fails and the socket is closed and forgotten
con_tcp(c) ==
  /\ lk[c].pc = "con_tcp"
  /\ \E ok \in BOOLEAN :
       IF ok /\ head.sock # "None"
         THEN /\ head' = [head EXCEPT !.sock = "open"]
              /\ LSet(c, [lk[c] EXCEPT !.pc = "con_mark", !.dest = head.addr])
         ELSE /\ head' = [head EXCEPT !.sock = "None", !.eof = FALSE]
              /\ LSet(c, [lk[c] EXCEPT !.pc = "con_disc", !.attempt = @ + 1,
                                       !.dest = head.addr])
  /\ UNCHANGED lcalls
  /\ LFrame

\* 111-112: self._set_connected(True)
con_mark(c) ==
  /\ lk[c].pc = "con_mark"
  /\ head' = [head EXCEPT !.connected = TRUE]
  /\ LSet(c, LGoto(c, "con_up"))
  /\ UNCHANGED lcalls
  /\ LFrame

\* 116-120: _stop_flag = False; the receive loop is started; return True
con_up(c) ==
  /\ lk[c].pc = "con_up"
  /\ head' = [head EXCEPT !.stop_flag = FALSE, !.recv = @ + 1]
  /\ LSet(c, [ConnectReturns(c, TRUE) EXCEPT !.started = TRUE])
  /\ UNCHANGED lcalls
  /\ LFrame

MarkDisconnected_m == head
\* 168: self._set_connected(False)
MarkDisconnected == [head EXCEPT !.connected = FALSE]

\* 162-169: the frame is written, or the write fails (always so without an
\* open socket) and the link is marked disconnected.  226-233: reboot_esp
\* closes the link after a successful send.
snd_send(c) ==
  /\ lk[c].pc = "snd_send"
  /\ \E ok \in BOOLEAN :
       IF ok /\ head.sock = "open"
         THEN /\ LSet(c, [lk[c] EXCEPT
                            !.wrote = Append(@, lk[c].packet),
                            !.result = "True",
                            !.pc = IF lk[c].cmd = "reboot_esp" THEN "close"
                                   ELSE "returned"])
              /\ UNCHANGED head
         ELSE /\ head' = MarkDisconnected
              /\ LSet(c, [LReturn(c, "False") EXCEPT !.wfail = TRUE])
  /\ UNCHANGED lcalls
  /\ LFrame

\* close, 171-179
close(c) ==
  /\ lk[c].pc = "close"
  /\ head' = [head EXCEPT !.stop_flag = TRUE, !.sock = "None",
                          !.connected = FALSE, !.eof = FALSE]
  /\ LSet(c, [lk[c] EXCEPT !.pc = "returned",
                           !.result = IF lk[c].cmd = "close" THEN "None" ELSE @])
  /\ UNCHANGED lcalls
  /\ LFrame

\* _recv_worker, 137: a receive loop that finds _stop_flag set leaves its
\* while loop
recv_exit ==
  /\ head.recv > 0 /\ head.stop_flag
  /\ head' = [head EXCEPT !.recv = @ - 1, !.leaving = @ + 1]
  /\ UNCHANGED <<lk, lcalls>>
  /\ LFrame

\* 150-151: self._set_connected(False); the thread ends
recv_mark ==
  /\ head.leaving > 0
  /\ head' = [head EXCEPT !.connected = FALSE, !.leaving = @ - 1]
  /\ UNCHANGED <<lk, lcalls>>
  /\ LFrame

\* _recv_worker, 137-147: one turn of the receive loop while _stop_flag is
\* not set.  The read returns data (a message, handed to on_message), zero
\* bytes (the peer has closed the connection; every later read of the
\* socket returns zero bytes too), or raises (always so without a socket);
\* in each case the loop goes on with its next turn (141 `continue`,
\* 146-147).
ReadOutcomes ==
  {got \in {"data", "zero", "error"} :
     /\ head.sock # "open" => got = "error"
     /\ head.eof => got = "zero"}
AfterRead(got) == [head EXCEPT !.eof = @ \/ got = "zero"]

recv_read ==
  /\ head.recv > 0 /\ ~head.stop_flag
  /\ \E got \in ReadOutcomes : head' = AfterRead(got)
  /\ UNCHANGED <<lk, lcalls>>
  /\ LFrame

\* The same turn of the loop, with the history of the reads that raised
recv_noted ==
  /\ head.recv > 0 /\ ~head.stop_flag
  /\ \E got \in ReadOutcomes :
       head' = [AfterRead(got) EXCEPT !.raised = @ \/ got = "error"]
  /\ UNCHANGED <<lk, lcalls>>
  /\ LFrame

(* --------------------------- specification ----------------------------- *)
Next ==
  \/ Tick
  \/ \E t \in Racers :
       \/ \E m \in {"full", "skip_stt"} : Trigger(t, m)
       \/ DirectCancel(t)
       \/ Retire(t)
       \/ gate_write(t) \/ gate_tts(t) \/ gate_check(t) \/ gate_clear(t)
       \/ gate_begin(t)
       \/ s_led4on(t) \/ s_beep(t) \/ s_beep_w(t) \/ s_beep_r(t) \/ s_listen(t) \/ s_fb_off(t)
       \/ servo_start(t)
       \/ pq1(t) \/ pq4(t)
       \/ gen_clear(t) \/ gen_84(t) \/ gen_89(t) \/ gen_103(t) \/ gen_108(t)
       \/ gen_119(t) \/ gen_exc(t)
       \/ ai_post(t) \/ ai_exc(t) \/ s_speak(t) \/ s_join(t) \/ finally(t)
       \/ speak_clear(t) \/ speak_put(t)
       \/ c_tts(t) \/ c_check(t) \/ c_set(t) \/ c_llm(t) \/ scs_a(t) \/ scs_set(t)
       \/ scs_b(t) \/ c_scs2(t) \/ c_leds(t) \/ c_clear(t) \/ c_done(t)
  \/ w_get \/ w_chk \/ w_enter \/ w_open \/ w_play \/ w_fin

Spec == Init /\ [][Next]_vars

\* The Audio Playback Engine with the alert thread as its speaker and
\* cancel_current_event called directly, by the main loop (main.py:291-298)
Cancellers == {1}
TtsNext ==
  \/ alert
  \/ \E t \in Threads : speak_clear(t) \/ speak_put(t)
  \/ \E t \in Cancellers :
       \/ DirectCancel(t) \/ Retire(t)
       \/ c_tts(t) \/ c_check(t) \/ c_set(t) \/ c_llm(t) \/ scs_a(t) \/ scs_set(t)
       \/ scs_b(t) \/ c_scs2(t) \/ c_leds(t) \/ c_clear(t) \/ c_done(t)
  \/ w_get \/ w_chk \/ w_enter \/ w_open \/ w_play \/ w_fin

TtsSpec == Init /\ [][TtsNext]_vars

\* The same engine when it is shut down: stop_tts called once, by a thread
\* of its own
Stoppers == {2}
ShutdownNext ==
  \/ TtsNext
  \/ \E t \in Stoppers : stop_tts(t) \/ st_flag(t) \/ st_put(t) \/ Retire(t)
  \/ w_exit

ShutdownSpec == Init /\ [][ShutdownNext]_vars

\* The steps of the actuator threads
ActuatorNext ==
  \E t \in Callers :
     \/ sv0(t) \/ sv_p1(t) \/ sv_c1(t) \/ sv_w1(t) \/ sv_p2(t) \/ sv_m148(t)
     \/ sv_m149(t) \/ sv_m153(t) \/ sv_c2(t) \/ sv_w2(t) \/ sv_p3(t)

\* The steps of a trigger call on thread t up to the first device command
\* of its session (184-234), and the end of its thread
GateStep(t) ==
  \/ Retire(t)
  \/ gate_write(t) \/ gate_tts(t) \/ gate_check(t) \/ gate_clear(t)
  \/ gate_begin(t) \/ s_led4on(t)

\* The steps of an on_button_press_event in direct-text mode that is running
\* on thread t and is not cancelling
DirectTextStep(t) ==
  \/ GateStep(t)
  \/ servo_start(t)
  \/ pq1(t) \/ pq4(t)
  \/ gen_clear(t) \/ gen_84(t) \/ gen_89(t) \/ gen_103(t) \/ gen_108(t)
  \/ gen_119(t) \/ gen_exc(t)
  \/ ai_post(t) \/ ai_exc(t) \/ s_speak(t) \/ s_join(t) \/ finally(t)
  \/ speak_clear(t) \/ speak_put(t)

\* The steps of an on_button_press_event that is running on thread t and is
\* not cancelling, and the end of its thread
SessionStep(t) ==
  \/ DirectTextStep(t)
  \/ s_beep(t) \/ s_beep_w(t) \/ s_beep_r(t) \/ s_listen(t) \/ s_fb_off(t)

\* The steps of a cancel_current_event on thread t while nothing is being
\* played (stop_current_speech returns at line 162), and the end of its
\* thread
QuietCancelStep(t) ==
  \/ Retire(t)
  \/ c_tts(t) \/ c_check(t) \/ c_set(t) \/ c_llm(t) \/ scs_a(t)
  \/ c_scs2(t) \/ c_leds(t) \/ c_clear(t) \/ c_done(t)

\* main(), main.py:204-229: g_esp.connect() is called once, before the
\* threads are started and before any input is read
ConnectCommands == {cmd \in Commands : cmd.name = "connect"}
StartupConnect(c) == c = 1 /\ lcalls = 0 /\ Call(c, ConnectCommands)
Startup ==
  /\ calls = 0
  /\ \E c \in Clients :
       \/ StartupConnect(c) \/ LRetire(c)
       \/ con_check(c) \/ con_disc(c) \/ con_sock(c) \/ con_tcp(c) \/ con_mark(c)
       \/ con_up(c)
\* The startup is over: no call of the link is in progress
Settled == \A c \in Clients : lk[c].pc = "idle"

\* One session with its actuator thread, and a cancel_current_event called
\* by the main loop (main.py:291-298) while the session runs or after it.
\* The playback worker is left out: what the session speaks stays queued.
Sessions == {1}
Others == Racers \ Sessions
ActNext ==
  \/ Startup
  \/ Settled /\ \E t \in Sessions, m \in {"full", "skip_stt"} : Trigger(t, m)
  \/ Settled /\ \E t \in Others : DirectCancel(t)
  \/ \E t \in Sessions : SessionStep(t)
  \/ \E t \in Others : QuietCancelStep(t)
  \/ ActuatorNext

ActSpec == Init /\ [][ActNext]_vars

\* The session alone, each step of its handler taken in the end; the
\* actuator thread may stay where it is for ever
LiveNext ==
  \/ Startup
  \/ Settled /\ \E t \in Sessions, m \in {"full", "skip_stt"} : Trigger(t, m)
  \/ \E t \in Sessions : SessionStep(t)
  \/ ActuatorNext

LiveSpec ==
  Init /\ [][LiveNext]_vars /\ \A t \in Sessions : WF_vars(SessionStep(t))

\* Direct-text triggers up to the start of their actuator threads, and the
\* threads: the sessions of two triggers that both pass the gate overlap
OverlapNext ==
  \/ Startup
  \/ Settled /\ \E t \in Racers : Trigger(t, "skip_stt")
  \/ \E t \in Racers : GateStep(t) \/ servo_start(t)
  \/ ActuatorNext

OverlapSpec == Init /\ [][OverlapNext]_vars

\* A direct-text session, a cancellation of it from the main loop, and a
\* trigger made after the cancellation has returned (main.py:291-312: the
\* loop reads the next key after cancel_current_event returns), up to the
\* first device command of its session; the playback worker and the
\* actuator threads are left out
Late == {3}
CancelOver == \A u \in Others : pc[u] \in {"returned", "gone"}
HandoverNext ==
  \/ Tick
  \/ \E t \in Sessions : Trigger(t, "skip_stt") \/ DirectTextStep(t)
  \/ \E t \in Others : DirectCancel(t) \/ QuietCancelStep(t)
  \/ \E t \in Late : (CancelOver /\ Trigger(t, "skip_stt")) \/ GateStep(t)

HandoverSpec == Init /\ [][HandoverNext]_vars

\* The Device Link and its clients
LinkNext ==
  \/ \E c \in Clients :
       \/ LinkCall(c) \/ LRetire(c)
       \/ snd_check(c) \/ snd_send(c)
       \/ con_check(c) \/ con_disc(c) \/ con_sock(c) \/ con_tcp(c) \/ con_mark(c)
       \/ con_up(c)
       \/ close(c)
  \/ recv_exit \/ recv_mark \/ recv_read

LinkSpec == Init /\ [][LinkNext]_vars

\* One thread that connects, sends and closes, and the receive loops, with
\* the history of their reads
ReceiveCall(c) == c = 1 /\ Call(c, TransportCommands)
RecvNext ==
  \/ \E c \in Clients :
       \/ ReceiveCall(c) \/ LRetire(c)
       \/ snd_check(c) \/ snd_send(c)
       \/ con_check(c) \/ con_disc(c) \/ con_sock(c) \/ con_tcp(c) \/ con_mark(c)
       \/ con_up(c)
       \/ close(c)
  \/ recv_exit \/ recv_mark \/ recv_noted

RecvSpec == Init /\ [][RecvNext]_vars

\* servo_set over its whole input range, on a link that send_packet
\* connects when it has to
ServoNext ==
  \/ \E c \in Clients :
       \/ ServoCall(c) \/ LRetire(c)
       \/ snd_check(c) \/ snd_send(c)
       \/ con_check(c) \/ con_disc(c) \/ con_sock(c) \/ con_tcp(c) \/ con_mark(c)
       \/ con_up(c)
  \/ recv_read

ServoSpec == Init /\ [][ServoNext]_vars

(* ------------------------------ properties ----------------------------- *)
Has(t, e) == e \in Range(trace[t])
Returned(t) == pc[t] = "returned"
\* A call of on_button_press_event that was accepted as a session
Accepted(t) == IsTrigger(t) /\ loc[t].outcome = "session"

RECURSIVE LastOf(_, _)
\* The argument of the last command of a kind in a history ("none" if none)
LastOf(tr, kind) ==
  IF tr = <<>> THEN "none"
  ELSE IF tr[Len(tr)][1] = kind THEN tr[Len(tr)][2]
  ELSE LastOf(SubSeq(tr, 1, Len(tr) - 1), kind)

RECURSIVE After(_, _)
\* What follows the first occurrence of e in a history
After(tr, e) ==
  IF tr = <<>> THEN <<>>
  ELSE IF Head(tr) = e THEN Tail(tr) ELSE After(Tail(tr), e)

NotTone(e) == e[1] # "beep"

\* C1: single-flight -- at most one thread is between marking
\* _event_in_progress = True and running its cleanup block.
C1_SingleFlight == Cardinality({t \in Callers : InSession(t)}) <= 1

\* C2: a trigger that passes the debounce gate and finds a session in
\* progress or speech playing only invokes cancel_current_event: it never
\* marks a session, sends no busy-indicator-on command, and runs no speech
\* capture, query processing or actuator thread.
C2_BusyTriggerOnlyCancels ==
  \A t \in Callers :
    loc[t].busy =>
      /\ loc[t].outcome = "cancel"
      /\ Where(t) \in CancelPcs \cup {"c_tts", "c_check", "returned"}
      /\ trace[t] # <<>> /\ Head(trace[t]) = <<"call", "cancel_current_event">>
      /\ \A i \in 1..Len(trace[t]) :
           /\ trace[t][i][1] \notin {"begin", "listen", "servo", "beep", "speak"}
           /\ trace[t][i] # <<"led4", "on">>
           /\ trace[t][i] # <<"call", "process_question">>
      /\ servo_pc[t] = "none"

C2_Witness == \E t \in Callers : loc[t].busy /\ Returned(t)

\* C3: of two triggers that start less than the debounce window apart, at
\* most one passes the debounce gate.  (While less than a window has gone by
\* since the start, any two calls are less than a window apart.)
C3_Debounce ==
  now - StartTime < DebounceTicks =>
    Cardinality({t \in Callers :
                   IsTrigger(t) /\ loc[t].outcome \notin {"none", "dropped"}}) <= 1

\* C4: when a cancel_current_event that found something to cancel returns,
\* STOP_LLM_FLAG has been set, every utterance that was queued when it was
\* called is out of the queue, and an off command was issued for LED 4 and
\* for LED 5.
C4_CancelStopsEverything ==
  \A t \in Callers :
    Returned(t) /\ loc[t].cres = "proceeded" =>
      /\ Has(t, <<"set", "STOP_LLM_FLAG">>)
      /\ loc[t].at_cancel \cap Range(audio_queue) = {}
      /\ Has(t, <<"led4", "off">>) /\ Has(t, <<"led5", "off">>)

\* C5: a cancel_current_event that finds no session in progress and no
\* speech playing returns without changing any flag, the queue, the
\* indicators or _event_in_progress, and without any device command.
C5_NoopCancel ==
  [][\A t \in Callers :
       /\ pc[t] = "c_tts" /\ pc'[t] # pc[t]
            => UNCHANGED <<orchVars, servoVars, ttsVars, linkVars, trace>>
       /\ pc[t] = "c_check" /\ ~event_in_progress /\ ~loc[t].tts_playing
            /\ pc'[t] # pc[t]
            => /\ pc'[t] = "returned"
               /\ UNCHANGED <<orchVars, servoVars, ttsVars, linkVars, trace>>]_vars

C5_Witness ==
  \E t \in Callers : Returned(t) /\ loc[t].kind = "cancel"
                     /\ loc[t].cres = "noop" /\ trace[t] = <<>>

\* C6: a session for which cancel_current_event was invoked, and had even
\* returned, before its speak(answer) step never puts its answer on the
\* playback queue.
C6_LateCancelSuppressesAnswer ==
  \A t \in Callers : cancel_hit[t] = "early" => ~Has(t, <<"put", "answer">>)

\* C7: when on_button_press_event returns from an accepted session, the
\* last LED 4 command of the session is 'off' and _event_in_progress is
\* False.
C7_BusyOffOnEveryExit ==
  \A t \in Callers :
    Returned(t) /\ Accepted(t) =>
      LastOf(trace[t], "led4") = "off" /\ ~event_in_progress

\* C8: an accepted full-mode session whose capture is empty, with no
\* cancellation, issues exactly: busy on, listening on, capture, listening
\* off, fallback phrase queued, busy off, in-progress cleared; it neither
\* calls process_question nor starts an actuator thread.
C8_EmptyCapture ==
  \A t \in Callers :
    /\ Returned(t) /\ Accepted(t) /\ loc[t].kind = "full"
    /\ cancel_hit[t] = "no" /\ Has(t, <<"listen", "">>)
    => /\ SelectSeq(trace[t], NotTone) =
            << <<"begin", "session">>, <<"led4", "on">>, <<"led5", "on">>,
               <<"listen", "">>, <<"led5", "off">>, <<"speak", "fallback">>,
               <<"put", "fallback">>, <<"led4", "off">>,
               <<"clear", "in_progress">> >>
       /\ ~event_in_progress
       /\ servo_pc[t] = "none"

C8_Witness ==
  \E t \in Callers :
    /\ Returned(t) /\ Accepted(t) /\ loc[t].kind = "full"
    /\ cancel_hit[t] = "no" /\ Has(t, <<"listen", "">>)

\* C9: when process_question raises and no cancellation overlaps the
\* session, the handler returns normally after: diagnostic answer spoken
\* (queued), actuator join, busy off, in-progress cleared.
C9_QueryFailureIsSpoken ==
  \A t \in Callers :
    /\ Returned(t) /\ cancel_hit[t] = "no"
    /\ Has(t, <<"raise", "process_question">>)
    => /\ After(trace[t], <<"raise", "process_question">>) =
            << <<"speak", "diag">>, <<"put", "answer">>,
               <<"join", "servo_thread">>, <<"led4", "off">>,
               <<"clear", "in_progress">> >>
       /\ ~event_in_progress

C9_Witness ==
  \E t \in Callers :
    /\ Returned(t) /\ cancel_hit[t] = "no"
    /\ Has(t, <<"raise", "process_question">>)

\* The reconnect-on-send rule for a call c that has returned
ReconnectsOnce(c) ==
  /\ lk[c].connects = 1
  /\ lk[c].con = "False" => lk[c].result = "False" /\ lk[c].wrote = <<>>
  /\ lk[c].wrote # <<>> => lk[c].con = "True"

\* C10 (as stated): on a disconnected link every convenience command
\* (send_led_level with a valid level) makes exactly one connect() call
\* before its frame is written, and returns False without writing when that
\* connect() fails.
C10_ReconnectOnSend ==
  \A c \in Clients :
    /\ lk[c].pc = "returned" /\ lk[c].cmd \in Convenience
    /\ lk[c].down /\ lk[c].rejected # "level"
    => ReconnectsOnce(c)

\* C10 (amended): the same for the commands whose argument is accepted,
\* that is, also only for set_ssid / set_password with at most 31 characters.
C10_ReconnectOnSendValid ==
  \A c \in Clients :
    /\ lk[c].pc = "returned" /\ lk[c].cmd \in Convenience
    /\ lk[c].down /\ lk[c].rejected = "no"
    => ReconnectsOnce(c)

C10_Witness ==
  \E c \in Clients :
    /\ lk[c].pc = "returned" /\ lk[c].cmd \in Convenience
    /\ lk[c].down /\ lk[c].rejected = "no"
    /\ lk[c].connects = 1 /\ lk[c].con = "True" /\ lk[c].wrote # <<>>

\* C11: a failure while writing the frame in send_packet marks the link
\* disconnected (is_connected() is false when the call returns) and makes
\* the call return False; the call never ends otherwise (it does not raise).
C11_WriteFailureDisconnects ==
  \A c \in Clients :
    lk[c].pc = "returned" /\ lk[c].wfail =>
      /\ ~is_connected
      /\ lk[c].result = "False"
      /\ lk[c].wrote = <<>>

C11_Witness ==
  \E c \in Clients :
    /\ lk[c].pc = "returned" /\ lk[c].wfail /\ lk[c].cmd \in Convenience
    /\ head.sock = "open"

\* C12: when the receive loop reads zero bytes (the peer has closed the
\* connection), that turn of the loop marks the link disconnected and ends
\* the loop.
C12_ZeroReadEndsLoop ==
  [][~head.eof /\ head'.eof =>
       ~head'.connected /\ head'.recv = head.recv - 1]_vars

\* The discovery part of C13 for a call that has returned
NoAddressFound(c) ==
  /\ lk[c].queries = retry_count
  /\ ~lk[c].opened /\ lk[c].dest = "none" /\ ~lk[c].started
  /\ lk[c].result = "False" /\ lk[c].wrote = <<>>

\* C13: a connect() whose discovery queries all yield no address returns
\* False, having issued exactly retry_count queries, opened no transport and
\* started no receive loop; none of its steps changes the state of the link.
C13_DiscoveryFailure ==
  /\ [](\A c \in Clients :
          lk[c].pc = "returned" /\ lk[c].queries > 0 /\ ~lk[c].found
            => NoAddressFound(c))
  /\ [][\A c \in Clients :
          /\ lk[c].pc = "con_disc" /\ lk'[c] # lk[c]
          /\ lk'[c].pc \in {"con_disc", "returned"}
          => head' = head]_vars

C13_Witness ==
  \E c \in Clients :
    /\ lk[c].pc = "returned" /\ lk[c].cmd = "connect"
    /\ lk[c].queries = retry_count /\ ~lk[c].found
    /\ lk[c].result = "False" /\ ~is_connected

\* C14: with an address configured through set_config, connect() issues no
\* discovery query, and a transport it opens goes to the configured address.
C14_ConfiguredSkipsDiscovery ==
  \A c \in Clients :
    /\ lk[c].pc = "returned" /\ head.hostname # "None"
    /\ lk[c].cmd = "connect" \/ lk[c].connects > 0
    => /\ lk[c].queries = 0
       /\ lk[c].dest \in {"none", "configured"}

\* C15: servo_set(i, a) on a connected link writes exactly the bytes
\* AA 02 i clamp(a, 0, 180) BB: angle byte B4 for every a >= 180, 00 for
\* every a <= 0, a itself in between.
C15_ServoFrame ==
  \A c \in Clients :
    /\ lk[c].pc = "returned" /\ lk[c].cmd = "servo_set"
    /\ ~lk[c].down /\ ~lk[c].wfail
    => /\ lk[c].result = "True"
       /\ Len(lk[c].wrote) = 1
       /\ Len(lk[c].wrote[1]) = 5
       /\ lk[c].wrote[1][1] = 170 /\ lk[c].wrote[1][2] = 2
       /\ lk[c].wrote[1][3] = lk[c].a
       /\ lk[c].b >= 180 => lk[c].wrote[1][4] = 180
       /\ lk[c].b <= 0 => lk[c].wrote[1][4] = 0
       /\ lk[c].b > 0 /\ lk[c].b < 180 => lk[c].wrote[1][4] = lk[c].b
       /\ lk[c].wrote[1][5] = 187

C15_Witness ==
  \E c \in Clients :
    /\ lk[c].pc = "returned" /\ lk[c].cmd = "servo_set"
    /\ ~lk[c].down /\ ~lk[c].wfail
    /\ lk[c].a = 2 /\ lk[c].b = 200
    /\ lk[c].wrote = << <<170, 2, 2, 180, 187>> >>

\* The worker writes a chunk of alert k in this step
WritesChunk(k) == w_item = Item(k) /\ w_chunk' = w_chunk + 1

C17_StopAlwaysStops ==
  [][\A t \in Callers :
       (/\ pc[t] \in {"scs_a", "scs_set", "scs_b"}
        /\ pc'[t] \notin {"scs_a", "scs_set", "scs_b"})
         => /\ <<"led_level", "0">> \in Range(trace'[t])
            /\ audio_queue' = <<>>]_vars

\* C18: no chunk is written of an utterance that was queued, or whose
\* speak() call was in progress, during a stop_current_speech that has
\* returned.
C18_DrainAtomic ==
  [][\A k \in Alerts : WritesChunk(k) => utt[k].hit # -1]_vars

\* C19: once the cancel_current_event that interrupted the playback of an
\* utterance has returned, no chunk of that utterance is written; and when
\* the playback of an interrupted utterance has ended the last indicator
\* level sent is 0.
C19_CancelBound ==
  /\ [][\A k \in Alerts : WritesChunk(k) => utt[k].cut # -1]_vars
  /\ [][\A k \in Alerts :
          w_item = Item(k) /\ utt[k].cut # 0 /\ w_pc = "w_fin" /\ w_pc' = "w_get"
            => led_level' = 0]_vars

\* C20: when the worker goes back to the queue after a playback -- ended by
\* completion, by an error of the stream or by a stop -- the stream is not
\* open, the last indicator level sent is 0, the stop flag is clear and
\* current_audio_process is None.
C20_Cleanup ==
  [][w_pc = "w_fin" /\ w_pc' = "w_get"
       => /\ stream' # "open"
          /\ led_level' = 0
          /\ ~stop_speech_flag'
          /\ current_audio_process' = "None"]_vars

C20_Witness ==
  /\ w_pc = "w_get" /\ played # <<>> /\ played # Void
  /\ stream = "None" /\ led_level = 0 /\ ~stop_speech_flag
  /\ current_audio_process = "None"

\* C21: whenever is_connected() is true, the receive loop has not read the
\* peer's disconnect from the socket: once a read has returned zero bytes,
\* is_connected() is false until the next successful connect().
C21_ConnectedMeansLive == is_connected => ~head.eof

\* What a session does after speech capture: speaking (the fallback phrase
\* or an answer), starting the actuator thread, calling process_question
AfterCapture(e) ==
  e[1] = "speak" \/ e = <<"servo", "start">> \/ e = <<"call", "process_question">>

\* C25: a full-mode session that was in speech capture when a
\* cancel_current_event set the cancellation flag speaks neither the
\* fallback phrase nor an answer, starts no actuator thread and does not call
\* process_question.
C25_CancelDuringCapture ==
  \A t \in Callers : \A u \in loc[t].capturing :
    \A i \in 1..Len(trace[u]) : ~AfterCapture(trace[u][i])

IsJoin(e) == e = <<"join", "servo_thread">>
\* speak(answer), line 365
IsAnswer(e) == e[1] = "speak" /\ e[2] # "fallback"

\* C29: in the steps of one session the join of the actuator thread comes
\* before the answer is handed to speak(), and the busy indicator is turned
\* off only after both.
C29_JoinBeforeSpeak ==
  \A t \in Callers : \A i, j \in 1..Len(trace[t]) :
    /\ IsJoin(trace[t][i]) /\ IsAnswer(trace[t][j]) => i < j
    /\ /\ trace[t][i] = <<"led4", "off">>
       /\ IsJoin(trace[t][j]) \/ IsAnswer(trace[t][j])
       => j < i

\* The steps of a session without its speech capture call
NotCapture(e) == e[1] # "listen"
\* 222-265: what a full-mode session does before the actuator thread is
\* started, the capture call left out: busy indicator on, prompt tone,
\* listening indicator on and off
FullPrelude ==
  << <<"begin", "session">>, <<"led4", "on">>, <<"beep", "played">>,
     <<"led5", "on">>, <<"led5", "off">> >>

\* C30: a session that goes on to the query (in full mode: its capture
\* returned a text; in direct-text mode: always) has by then performed the
\* steps of the full mode, the capture call apart, whatever its mode.
C30_DirectTextSameSteps ==
  \A t \in Callers :
    Has(t, <<"servo", "start">>) =>
      LET steps == SelectSeq(trace[t], NotCapture) IN
        /\ Len(steps) > Len(FullPrelude)
        /\ SubSeq(steps, 1, Len(FullPrelude)) = FullPrelude
        /\ steps[Len(FullPrelude) + 1] = <<"servo", "start">>


\* C24: no request put on the queue by speak() is left there for ever: when
\* the worker has ended, the queue holds no request.
C24_NoRequestLeft ==
  w_pc = "w_stopped" =>
    \A i \in 1..Len(audio_queue) : audio_queue[i] = Sentinel

\* Thread t issues a motion command in this step
Moves(t) == servo_cmds'[t] # servo_cmds[t]

\* C22: once on_button_press_event has returned from a session, the
\* actuator thread of that session issues no motion command.
C22_NoMotionAfterSession ==
  [][\A t \in Callers : pc[t] \in {"returned", "gone"} => ~Moves(t)]_vars

\* C23: every accepted session comes to its end: on_button_press_event
\* returns with _event_in_progress False, however long the actuator thread
\* takes.
C23_SessionTerminates ==
  \A t \in Sessions :
    (pc[t] = "s_led4on") ~> (pc[t] = "returned" /\ ~event_in_progress)

C23_Witness ==
  \E t \in Sessions :
    /\ pc[t] = "returned" /\ Has(t, <<"join", "servo_thread">>)
    /\ servo_pc[t] \notin {"none", "done"} /\ ~event_in_progress

\* C26: an actuator thread that was in a wait slice or between two motions
\* when a cancel_current_event set the cancellation flag issues no motion
\* command from then on.
C26_NoMotionAfterCancel ==
  [][\A t \in Callers : \A u \in loc[t].moving : ~Moves(u)]_vars

MovesServo2(t) ==
  /\ Moves(t)
  /\ servo_cmds'[t][Len(servo_cmds'[t])][1] = 2

\* C28: servo2_pos is always 1 or 2; every _servo2_move_once that reaches
\* its motion command switches servo2_pos to the other side and commands an
\* angle of the new side (30..60 for 1, 120..150 for 2), whichever threads
\* run it and however they overlap; servo2_pos changes in no other way.
C28_Servo2Alternates ==
  /\ [](servo2_pos \in {1, 2})
  /\ [][\A t \in Callers :
          MovesServo2(t) =>
            /\ servo2_pos' = 3 - servo2_pos
            /\ LET a == servo_cmds'[t][Len(servo_cmds'[t])][2] IN
                 IF servo2_pos' = 1 THEN a \in 30..60 ELSE a \in 120..150]_vars
  /\ [][servo2_pos' # servo2_pos => \E t \in Callers : MovesServo2(t)]_vars

\* Two threads have commanded servo 2, one after the other
C28_Witness ==
  /\ \A t \in Racers : \E i \in 1..Len(servo_cmds[t]) : servo_cmds[t][i][1] = 2
  /\ servo2_pos = 2

\* C34: a frame written by set_ssid or set_password carries the sub-command
\* byte and at most 31 bytes of credential: with the start byte, the command
\* byte and the end byte it is at most 4 + 31 bytes long.
C34_CredentialFits ==
  \A c \in Clients :
    lk[c].cmd \in {"set_ssid", "set_password"} =>
      \A i \in 1..Len(lk[c].wrote) :
        Len(lk[c].wrote[i]) <= 4 + CredentialLimit

\* C37: at most one receive loop (_recv_worker) is running for the link.
C37_OneReceiveLoop == head.recv + head.leaving <= 1

\* C40: once set, STOP_LLM_FLAG is cleared only by the entry gate of an
\* accepted trigger (reset_llm_stop, asrada_controller.py:218).
C40_StopSignalStays ==
  [][STOP_LLM_FLAG /\ ~STOP_LLM_FLAG'
       => \E t \in Callers : pc[t] = "gate_clear"]_vars

\* C31: when a read of the receive loop raises, that turn of the loop marks
\* the link disconnected and ends the loop.
C31_ReadErrorEndsLoop ==
  [][~head.raised /\ head'.raised =>
       ~head'.connected /\ head'.recv < head.recv]_vars

\* C38: a receive loop that ends (150) never turns a connected link into a
\* disconnected one: the link it marks is the one that close() has already
\* marked, not a connection made since.
C38_OldLoopLeavesNewConnection ==
  [][head'.leaving < head.leaving =>
       ~(is_connected /\ ~head'.connected)]_vars

\* The speak() call of alert k drops the utterance at its check of the
\* stop flag (309-311)
DroppedAtPut(k) ==
  /\ pc[AlertThread] = "sp2" /\ loc[AlertThread].gen_k = k
  /\ pc'[AlertThread] # "sp2" /\ stop_speech_flag

\* The worker discards alert k at its check of the stop flag (245-248)
Discarded(k) ==
  /\ w_pc = "w_chk" /\ w_item = Item(k)
  /\ w_pc' # "w_chk" /\ stop_speech_flag

\* C32: an utterance is dropped by speak() or discarded by the worker
\* because of the stop flag only if a stop has set the flag since its
\* speak() call began: the flag of a stop that had returned before is
\* never seen by a later request.
C32_NoLeakedStop ==
  [][\A k \in Alerts : DroppedAtPut(k) \/ Discarded(k) => utt[k].stops]_vars

\* A stop has been made and the cancellation has returned, and a later
\* alert, which no stop has touched, is being played
C32_Witness ==
  /\ played = Void
  /\ \A t \in Cancellers : pc[t] \in {"returned", "gone"}
  /\ \E j, k \in Alerts :
       /\ j < k /\ utt[j].stops
       /\ InLoop(k) /\ ~utt[k].stops /\ w_chunk > 0

\* C33: once stop_tts has set the stop flag, the worker begins no playback:
\* it opens no stream for a request.
C33_NoPlaybackAfterShutdown ==
  [][(~is_running /\ \A t \in Stoppers : pc[t] # "st_flag")
       => ~(w_pc = "w_open" /\ w_pc' = "w_play")]_vars

\* C39: at most one output stream is open: the stream of a playback and the
\* stream of a prompt tone are never open together, nor are the streams of
\* two prompt tones.
C39_OneStream ==
  Cardinality({t \in Callers : loc[t].beep = "open"})
    + (IF stream = "open" THEN 1 ELSE 0) <= 1

\* C35: when a session that no cancellation has overlapped is about to
\* issue its first device command (busy indicator on, 234), the three
\* cancellation signals are clear and _event_in_progress is True.
C35_GateClearsSignals ==
  \A t \in Callers :
    pc[t] = "s_led4on" /\ cancel_hit[t] = "no" =>
      /\ ~cancel_requested /\ ~STOP_LLM_FLAG /\ ~force_stop_flag
      /\ event_in_progress

\* C36: the cleanup block of a session that a cancellation has overlapped
\* leaves _event_in_progress and _cancel_requested as they are while a
\* later session, accepted after that cancellation, is in progress.
C36_CleanupSparesLaterSession ==
  [][\A t \in Callers :
       (/\ pc[t] = "finally" /\ pc'[t] # "finally"
        /\ cancel_hit[t] # "no"
        /\ \E u \in Callers : u > t /\ InSession(u) /\ cancel_hit[u] = "no")
       => /\ event_in_progress' = event_in_progress
          /\ cancel_requested' = cancel_requested]_vars

==========================================================================
